---- MODULE Spec2Model ----
(***************************************************************************)
(* S.C.A.R.I. datacenter thermal simulation: CoolingSystem, Server, Rack   *)
(* and DataCenterEnv (src/src/models, src/src/envs), with the              *)
(* configuration loading, the GreenDC calculator and the training          *)
(* endpoints of the API (src/src/utils, src/src/train.py, src/src/api).    *)
(*                                                                         *)
(* Floating point quantities are held in fixed point:                     *)
(*   temperature      centi-degrees Celsius   (22.0 C    = 2200)          *)
(*   load / action    tenths                  (1.0       = 10)            *)
(*   cooling flow     hundredths              (1.0       = 100)           *)
(*   power / heat     watts                                               *)
(*   health           millionths              (1.0       = 1000000)       *)
(*   reward           thousandths             (-2000.0   = -2000000)      *)
(*   observation      thousandths             (1.0       = 1000)          *)
(* Divisions truncate; np.exp and u ** 1.8 are tabulated from the source  *)
(* formulas and interpolated linearly.  NaN and infinite inputs are not   *)
(* represented.                                                            *)
(***************************************************************************)
EXTENDS Integers, Sequences, FiniteSets, TLC

VARIABLES cfg, globalRng, rack, rackRet, envs, envRet, calls, seedObs, hist, twin, twinRng,
          cooler, coolRet, penaltyRet, loader, carbonRet, status, tasks, responses

vars == <<cfg, globalRng, rack, rackRet, envs, envRet, calls, seedObs, hist, twin, twinRng,
          cooler, coolRet, penaltyRet, loader, carbonRet, status, tasks, responses>>

\* The training API: the module's status object, the background tasks added
\* so far and the responses sent.
apiVars == <<status, tasks, responses>>

\* The state of the stand-alone utilities: configuration loading, the
\* GreenDC calculator and the training API.
utilVars == <<loader, carbonRet, apiVars>>

\* The stand-alone cooling system, what its last call returned, the last
\* evaluation of the reward's safety penalty, and the utilities.
probeVars == <<cooler, coolRet, penaltyRet, utilVars>>

------------------------------------------------------------------------------
(* Arithmetic helpers                                                      *)

Abs(x) == IF x < 0 THEN -x ELSE x

Max2(a, b) == IF a >= b THEN a ELSE b

Min2(a, b) == IF a <= b THEN a ELSE b

\* Division truncating toward zero, defined for negative numerators.
Quot(a, b) == IF a >= 0 THEN a \div b ELSE -((-a) \div b)

\* a * b, saturated at +-2000000000 (the products so cut are clamped to far
\* smaller ranges by the code that uses them).
SatMul(a, b) ==
    IF a = 0 \/ b = 0 THEN 0
    ELSE IF Abs(a) > 2000000000 \div Abs(b)
         THEN (IF (a < 0) = (b < 0) THEN 2000000000 ELSE -2000000000)
         ELSE a * b

\* np.clip(x, lo, hi) = minimum(hi, maximum(x, lo)); with lo > hi it yields hi.
Clip(x, lo, hi) == Min2(hi, Max2(x, lo))

\* A sequence built element by element, evaluated once.
Vec(f) == f \o <<>>

ClipVec(v, lo, hi) == Vec([i \in 1..Len(v) |-> Clip(v[i], lo, hi)])

RECURSIVE SumSeq(_)
SumSeq(s) == IF s = <<>> THEN 0 ELSE s[1] + SumSeq(Tail(s))

RECURSIVE MaxSeq(_)
MaxSeq(s) == IF Len(s) = 1 THEN s[1] ELSE Max2(s[1], MaxSeq(Tail(s)))

\* Linear interpolation in a table sampled every `step` from `first`,
\* saturating at both ends.
Interp(table, first, step, x) ==
    LET last == first + step * (Len(table) - 1)
        xc == Clip(x, first, last)
        k == (xc - first) \div step
        r == (xc - first) % step
    IN  IF r = 0
        THEN table[k + 1]
        ELSE table[k + 1] + ((table[k + 2] - table[k + 1]) * r) \div step

------------------------------------------------------------------------------
(* Fixed-point images of the literals 1.0                                  *)

LoadOne == 10

HealthOne == 1000000

ObsOne == 1000

------------------------------------------------------------------------------
(* CoolingSystem (src/src/models/cooling.py).  A flow rate is held in      *)
(* hundredths, efficiency_factor in thousandths and operating_hours in     *)
(* seconds of operation (3600 to the hour).                                *)

FlowOne == 100

EfficiencyOne == 1000

\* The modes get_power_consumption knows.
CoolingModes == {"AIR", "LIQUID", "HYBRID"}

\* CoolingSystem.__init__: any mode is accepted.
NewCoolingSystem(mode) ==
    [mode |-> mode, efficiency_factor |-> EfficiencyOne, operating_hours |-> 0]

\* flow ** 2.5 in thousandths, flow in hundredths.
Pow25(f) ==
    Interp(<<0, 3, 18, 49, 101, 177, 279, 410, 572, 768, 1000>>, 0, 10, f)

\* The AIR branch of get_power_consumption: fan power in watts at a clipped
\* flow f.
AirPower(c, f) ==
    IF f < 5
    THEN 2
    ELSE LET efficiency_loss == 10000 + 15 * Abs(75 - f)
             base_and_static == (c.max_fan_power * (f * f * f + 500 * f)) \div 1000000
         IN  (base_and_static * efficiency_loss) \div 10000

\* The LIQUID branch of get_power_consumption: pump power in watts.
LiquidPower(c, f) ==
    IF f < 10
    THEN c.base_pump_power \div 2
    ELSE LET efficiency_factor == 10000 + ((f - 65) * (f - 65)) \div 5
             variable_power == c.max_pump_power * Pow25(f)
         IN  c.base_pump_power + (variable_power * efficiency_factor) \div 10000000

\* The flows the HYBRID branch of get_power_consumption passes on.
HybridAirFlow(f) == IF f < 40 THEN (f * 15) \div 10 ELSE 30

HybridLiquidFlow(f) == IF f < 40 THEN 20 ELSE f

\* get_power_consumption: raised is TRUE when ValueError is raised.  The
\* HYBRID branch calls the method on a new AIR and a new LIQUID system; the
\* result is multiplied by efficiency_factor.
RECURSIVE GetPowerConsumption(_, _, _)
GetPowerConsumption(c, cs, flow_rate) ==
    LET f == Clip(flow_rate, 0, FlowOne)
        power == CASE cs.mode = "AIR" -> AirPower(c, f)
                   [] cs.mode = "LIQUID" -> LiquidPower(c, f)
                   [] cs.mode = "HYBRID" ->
                          GetPowerConsumption(c, NewCoolingSystem("AIR"),
                                              HybridAirFlow(f)).power
                          + GetPowerConsumption(c, NewCoolingSystem("LIQUID"),
                                                HybridLiquidFlow(f)).power
                   [] OTHER -> 0
    IN  IF cs.mode \notin CoolingModes
        THEN [raised |-> TRUE, power |-> 0]
        ELSE [raised |-> FALSE, power |-> (power * cs.efficiency_factor) \div EfficiencyOne]

\* The AIR branch of get_cooling_capacity, in watts; temperatures in
\* centi-degrees.
AirCapacity(c, f, ambient_temp, delta_t) ==
    LET passive == c.natural_convection
        economizer_bonus ==
            IF ambient_temp < 1800 /\ f > 10
            THEN (f * ((15 * c.air_cooling_capacity * (1800 - ambient_temp)) \div 1000)) \div 1000
            ELSE 0
        active == (f * ((c.air_cooling_capacity * delta_t) \div 30)) \div 10000
    IN  passive + active + economizer_bonus

\* The LIQUID branch of get_cooling_capacity.
LiquidCapacity(c, f, delta_t) ==
    LET effectiveness == Min2(1000, delta_t \div 4)
        base_capacity == f * c.liquid_cooling_capacity
    IN  ((base_capacity \div 100) * effectiveness) \div 1000

\* The HYBRID branch of get_cooling_capacity.
HybridCapacity(c, f) ==
    (3 * f * c.air_cooling_capacity) \div 1000
        + (7 * f * c.liquid_cooling_capacity) \div 1000

\* get_cooling_capacity evaluating each mode at a flow that falls back once
\* the requested flow passes 0.65.
GetCoolingCapacity_PeakAtBep(c, cs, flow_rate, ambient_temp, server_temp) ==
    LET f0 == Clip(flow_rate, 0, FlowOne)
        f == Min2(f0, 130 - f0)
        delta_t == Max2(10, server_temp - ambient_temp)
    IN  CASE cs.mode = "AIR" -> AirCapacity(c, f, ambient_temp, delta_t)
          [] cs.mode = "LIQUID" -> LiquidCapacity(c, f, delta_t)
          [] cs.mode = "HYBRID" -> HybridCapacity(c, f)
          [] OTHER -> 0

\* get_cooling_capacity: it never raises; with a mode it does not know it
\* returns 0.0.
GetCoolingCapacity(c, cs, flow_rate, ambient_temp, server_temp) ==
    LET f == Clip(flow_rate, 0, FlowOne)
        delta_t == Max2(10, server_temp - ambient_temp)
    IN  CASE cs.mode = "AIR" -> AirCapacity(c, f, ambient_temp, delta_t)
          [] cs.mode = "LIQUID" -> LiquidCapacity(c, f, delta_t)
          [] cs.mode = "HYBRID" -> HybridCapacity(c, f)
          [] OTHER -> 0

\* update_degradation: 1% of efficiency lost per 1000 hours, floored at 0.8.
UpdateDegradation(cs, dt) ==
    LET operating_hours == cs.operating_hours + dt
    IN  [cs EXCEPT !.operating_hours = operating_hours,
                   !.efficiency_factor =
                       Max2(800, EfficiencyOne - operating_hours \div 360000)]

------------------------------------------------------------------------------
(* Random generators.  A generator is a state in RngStates; a draw reads   *)
(* the state and advances it.  np.random (process-global) and each         *)
(* environment's np_random are separate generator states.                  *)

RngStates == 0..3

RngNext(s) == (5 * s + 3) % 4

RECURSIVE RngAdvance(_, _)
RngAdvance(s, n) == IF n = 0 THEN s ELSE RngAdvance(RngNext(s), n - 1)

\* uniform(lo, hi): a value in [lo, hi) determined by the generator state.
Uniform(s, lo, hi) == lo + (s * (hi - lo)) \div 4

\* normal(0, std): std times a standard deviate determined by the state.
Normal(s, std) == std * <<0, 1, -1, 2>>[s + 1]

UniformVec(s, lo, hi, n) == Vec([i \in 1..n |-> Uniform(RngAdvance(s, i - 1), lo, hi)])

NormalVec(s, std, n) == Vec([i \in 1..n |-> Normal(RngAdvance(s, i - 1), std)])

\* gymnasium seeding.np_random(seed): the generator state a seed selects.
SeedState(seed) == (3 * seed + 2) % 4

------------------------------------------------------------------------------
(* Server (src/src/models/server.py)                                       *)

\* u ** 1.8 in thousandths, u in tenths.
Pow18(u) == <<0, 16, 55, 115, 192, 287, 399, 526, 669, 827, 1000>>[u + 1]

\* np.exp(0.03 * (T - 45.0)) in thousandths, T in centi-degrees.
LeakExp(t) ==
    Interp(<<259, 301, 350, 407, 472, 549, 638, 741, 861, 1000, 1162, 1350,
             1568, 1822, 2117, 2460, 2858, 3320, 3857, 4482, 5207, 6050, 7029>>,
           0, 500, t)

\* np.exp(8000 * (1/(273.15 + 40.0) - 1/(273.15 + T))) in thousandths.
AgingFactor(t) ==
    Interp(<<8, 14, 24, 40, 67, 109, 175, 277, 431, 661, 1000, 1494, 2205,
             3215, 4635, 6611, 9332, 13043, 18058, 24775, 33697, 45449,
             60811, 80740, 106411>>,
           -1000, 500, t)

\* Server.__init__
NewServer(c) ==
    [temperature |-> c.physics.ambient_temp,
     cpu_load |-> 0,
     power_draw |-> c.physics.p_idle,
     health |-> HealthOne,
     cooling_system |-> NewCoolingSystem("AIR")]

\* AgeHealth without the floor at 0.
AgeHealth_NoFloor(health, temperature, dt) ==
    health - SatMul(2 * AgingFactor(temperature), dt) \div 1000

\* The health update of update_physics: Arrhenius loss at the temperature
\* reached before the absolute clamp, floored at 0.
AgeHealth(health, temperature, dt) ==
    Max2(0, health - SatMul(2 * AgingFactor(temperature), dt) \div 1000)

\* ApplyLimits clamping from above only.
ApplyLimits_UpperOnly(c, temperature) == Min2(temperature, c.physics.max_temp)

\* The absolute clamp of update_physics.
ApplyLimits(c, temperature) ==
    Clip(temperature, c.physics.min_temp, c.physics.max_temp)

\* Server.update_physics: the server after the call and the returned stats.
UpdatePhysics(c, s, load, action, dt, inlet_temp_offset) ==
    LET cpu_load == Clip(load, 0, LoadOne)
        cooling_action == Clip(action, 0, LoadOne)
        u == cpu_load
        dynamic_factor == IF u > 0 THEN 300 + (7 * Pow18(u)) \div 10 ELSE 300
        p_max == c.physics.p_max
        it_dynamic_power == (p_max * dynamic_factor) \div 1000
        base_leakage == (p_max * 5) \div 100
        leakage_power == (base_leakage * LeakExp(s.temperature)) \div 1000
        power_draw == it_dynamic_power + leakage_power
        heat_generated == power_draw
        effective_ambient == c.physics.ambient_temp + inlet_temp_offset
        flow_rate == cooling_action * (FlowOne \div LoadOne)
        heat_removed == GetCoolingCapacity(c.cooling, s.cooling_system, flow_rate,
                                           effective_ambient, s.temperature)
        cooling_cost == GetPowerConsumption(c.cooling, s.cooling_system, flow_rate).power
        net_heat == heat_generated - heat_removed
        raw_delta == Quot(SatMul(SatMul(net_heat, dt), 100), c.physics.server_thermal_mass)
        max_delta == c.physics.max_temp_change_per_second
        delta_temp == Clip(raw_delta, -max_delta, max_delta)
        moved == s.temperature + delta_temp
        health == AgeHealth(s.health, moved, dt)
        temperature == ApplyLimits(c, moved)
    IN  [server |-> [s EXCEPT !.temperature = temperature,
                              !.power_draw = power_draw,
                              !.health = health],
         stat |-> [temp |-> temperature,
                   it_power |-> power_draw,
                   cooling_power |-> cooling_cost,
                   heat_generated |-> heat_generated,
                   heat_removed |-> heat_removed,
                   health |-> health,
                   leakage_power |-> leakage_power]]

\* Server.reset leaving health as it is.
ServerReset_KeepHealth(c, s, g) ==
    [s EXCEPT !.temperature = Uniform(g, 4000, 5000),
              !.cpu_load = 0,
              !.power_draw = c.physics.p_idle]

\* Server.reset: the temperature is drawn from np.random, the process-global
\* generator, whose state is g.
ServerReset(c, s, g) ==
    [s EXCEPT !.temperature = Uniform(g, 4000, 5000),
              !.cpu_load = 0,
              !.power_draw = c.physics.p_idle,
              !.health = HealthOne]

------------------------------------------------------------------------------
(* Rack (src/src/models/rack.py)                                           *)

NumServers(c) == c.environment.num_racks * c.environment.servers_per_rack

\* Rack.__init__
NewRack(c, n) ==
    [num_servers |-> n,
     servers |-> Vec([i \in 1..n |-> NewServer(c)]),
     last_cooling_power |-> 0]

\* The size check of Rack.update.
SizeMismatch(r, loads, actions) ==
    Len(loads) # r.num_servers \/ Len(actions) # r.num_servers

\* Rack.update with the size check made per server inside the loop: the
\* servers both vectors cover are updated before the error is raised.
RackUpdate_CheckInLoop(c, r, loads0, actions0) ==
    LET loads == ClipVec(loads0, 0, LoadOne)
        actions == ClipVec(actions0, 0, LoadOne)
        covered == Min2(r.num_servers, Min2(Len(loads), Len(actions)))
        res == Vec([i \in 1..covered |->
                       UpdatePhysics(c, r.servers[i], loads[i], actions[i], 1, 0)])
        stats == Vec([i \in 1..covered |-> res[i].stat])
    IN  [raised |-> SizeMismatch(r, loads, actions),
         rack |-> [r EXCEPT !.servers = Vec([i \in 1..r.num_servers |->
                                  IF i <= covered THEN res[i].server ELSE r.servers[i]]),
                            !.last_cooling_power =
                                SumSeq([i \in 1..covered |-> stats[i].cooling_power])],
         stats |-> stats]

\* Rack.update: raised is TRUE when ValueError is raised; otherwise the rack
\* after the call and the list of stats.
RackUpdate(c, r, loads0, actions0) ==
    LET loads == ClipVec(loads0, 0, LoadOne)
        actions == ClipVec(actions0, 0, LoadOne)
    IN  IF SizeMismatch(r, loads, actions)
        THEN [raised |-> TRUE, rack |-> r, stats |-> <<>>]
        ELSE LET res == Vec([i \in 1..r.num_servers |->
                            UpdatePhysics(c, r.servers[i], loads[i], actions[i], 1, 0)])
                 stats == Vec([i \in 1..r.num_servers |-> res[i].stat])
                 total_cooling_power ==
                     SumSeq([i \in 1..r.num_servers |-> stats[i].cooling_power])
             IN  [raised |-> FALSE,
                  rack |-> [r EXCEPT !.servers = Vec([i \in 1..r.num_servers |-> res[i].server]),
                                     !.last_cooling_power = total_cooling_power],
                  stats |-> stats]

GetTotalPower(r) ==
    SumSeq([i \in 1..r.num_servers |-> r.servers[i].power_draw]) + r.last_cooling_power

GetTemperatures(r) == Vec([i \in 1..r.num_servers |-> r.servers[i].temperature])

GetAvgTemperature(c, r) ==
    IF r.num_servers > 0
    THEN SumSeq(GetTemperatures(r)) \div r.num_servers
    ELSE c.physics.ambient_temp

\* Rack.reset: the servers are reset in order, each drawing once from the
\* global generator whose state is g before the call.
RackReset(c, r, g) ==
    [r EXCEPT !.servers = Vec([i \in 1..r.num_servers |->
                              ServerReset(c, r.servers[i], RngAdvance(g, i - 1))]),
              !.last_cooling_power = 0]


\* The methods Rack defines.
RackMethods ==
    {"update", "get_total_power", "get_temperatures", "get_max_temperature",
     "get_avg_temperature", "get_avg_cooling_power", "reset"}

------------------------------------------------------------------------------
(* DataCenterEnv (src/src/envs/datacenter_env.py)                          *)

\* The absent value of prev_temps (None) and of last_action (no attribute).
None == <<>>

\* A seed argument of None, and the generator of an environment that has not
\* created one yet (gymnasium creates it from OS entropy on first use).
NoSeed == -1

\* DataCenterEnv.__init__
NewEnv(c) ==
    [rack |-> NewRack(c, NumServers(c)),
     num_servers |-> NumServers(c),
     current_loads |-> Vec([i \in 1..NumServers(c) |-> 0]),
     step_count |-> 0,
     episode_count |-> 0,
     prev_temps |-> None,
     last_action |-> None,
     episode_rewards |-> <<>>,
     episode_temps |-> <<>>,
     episode_powers |-> <<>>,
     np_random |-> NoSeed]

\* The np_random property: the generator in use, created from entropy when
\* the environment has none.
Generator(e, entropy) == IF e.np_random = NoSeed THEN entropy ELSE e.np_random

\* (T - t_min) / (t_max - t_min + 1e-6) clipped to [0, 1], in thousandths.
NormTemp(c, t) ==
    LET span == c.physics.max_temp - c.physics.min_temp
        x == t - c.physics.min_temp
    IN  IF span > 0 THEN Clip(Quot(x * ObsOne, span), 0, ObsOne)
        ELSE IF span = 0 THEN (IF x > 0 THEN ObsOne ELSE 0)
        ELSE Clip(Quot((-x) * ObsOne, -span), 0, ObsOne)

\* clip(((noisy - prev) / 10.0) * 0.5 + 0.5, 0, 1), in thousandths.
Trend(noisy, prev) == Clip(Quot(noisy - prev, 2) + 500, 0, ObsOne)

\* The shape of observation_space.
ObservationShape(c) == 4 * NumServers(c)

\* The vector _get_obs concatenates.
ObsLayout(norm_temps, loads, health, trends) ==
    norm_temps \o loads \o health \o trends

\* _get_obs with prev_temps set: the observation, the new prev_temps and the
\* generator after the sensor-noise draw.  With prev_temps None the method
\* reads temps_for_obs before assignment and raises (see StepRecord).
GetObs(c, e, rng) ==
    LET n == e.num_servers
        temps == GetTemperatures(e.rack)
        obs_noise == NormalVec(rng, 50, n)
        noisy_temps == Vec([i \in 1..n |-> temps[i] + obs_noise[i]])
        trends == Vec([i \in 1..n |-> Trend(noisy_temps[i], e.prev_temps[i])])
        norm_temps == Vec([i \in 1..n |-> NormTemp(c, noisy_temps[i])])
        loads == Vec([i \in 1..n |-> e.current_loads[i] * (ObsOne \div LoadOne)])
        health == Vec([i \in 1..n |-> e.rack.servers[i].health \div (HealthOne \div ObsOne)])
    IN  [obs |-> ObsLayout(norm_temps, loads, health, trends),
         prev_temps |-> noisy_temps,
         rng |-> RngAdvance(rng, n)]

\* The generator reset() uses: reseeded when a seed is given.
ResetGenerator(e, seed, entropy) ==
    IF seed # NoSeed THEN SeedState(seed) ELSE Generator(e, entropy)

\* DataCenterEnv.reset leaving step_count as it is.
EnvReset_KeepStepCount(c, e, seed, entropy, g) ==
    LET n == e.num_servers
        rng0 == ResetGenerator(e, seed, entropy)
        rack1 == RackReset(c, e.rack, g)
        loads == UniformVec(rng0, c.environment.min_initial_load,
                            c.environment.max_initial_load, n)
        e1 == [e EXCEPT !.rack = rack1,
                        !.prev_temps = GetTemperatures(rack1),
                        !.current_loads = loads,
                        !.episode_count = e.episode_count + 1,
                        !.episode_rewards = <<>>,
                        !.episode_temps = <<>>,
                        !.episode_powers = <<>>]
        o == GetObs(c, e1, RngAdvance(rng0, n))
    IN  [env |-> [e1 EXCEPT !.prev_temps = o.prev_temps, !.np_random = o.rng],
         obs |-> o.obs,
         globalRng |-> RngAdvance(g, n)]

\* DataCenterEnv.reset: g is the state of the global generator before the
\* call.  Returns the environment, the observation and the global generator
\* after the call.
EnvReset(c, e, seed, entropy, g) ==
    LET n == e.num_servers
        rng0 == ResetGenerator(e, seed, entropy)
        rack1 == RackReset(c, e.rack, g)
        loads == UniformVec(rng0, c.environment.min_initial_load,
                            c.environment.max_initial_load, n)
        e1 == [e EXCEPT !.rack = rack1,
                        !.prev_temps = GetTemperatures(rack1),
                        !.current_loads = loads,
                        !.step_count = 0,
                        !.episode_count = e.episode_count + 1,
                        !.episode_rewards = <<>>,
                        !.episode_temps = <<>>,
                        !.episode_powers = <<>>]
        o == GetObs(c, e1, RngAdvance(rng0, n))
    IN  [env |-> [e1 EXCEPT !.prev_temps = o.prev_temps, !.np_random = o.rng],
         obs |-> o.obs,
         globalRng |-> RngAdvance(g, n)]


\* Reward terms of _calculate_reward, in thousandths; temperatures in
\* centi-degrees.
SoftThermalReward(max_temp) ==
    IF 4500 <= max_temp /\ max_temp <= 5500
    THEN 5000 - 5 * Abs(max_temp - 5000)
    ELSE IF max_temp < 4500 THEN 2000 ELSE 0

WarningPenalty(max_temp) ==
    IF 5500 < max_temp /\ max_temp < 6000
    THEN 2 * (max_temp - 5500) * (max_temp - 5500)
    ELSE 0

CriticalPenalty(max_temp) ==
    IF max_temp >= 6000 THEN 300000 + 1000 * (max_temp - 6000) ELSE 0

\* The safety terms of the reward: the warning and the critical penalty.
SafetyPenalty(max_temp) == WarningPenalty(max_temp) + CriticalPenalty(max_temp)

\* The value returned when max_temp >= config.physics.max_temp.
GameOverReward == -2000000

\* The test of the absolute fail condition.
AbsoluteFail(c, max_temp) == max_temp >= c.physics.max_temp

\* _calculate_reward: the reward and last_action after the call.
CalculateReward(c, e, stats, actions) ==
    LET n == e.num_servers
        it_power == SumSeq([i \in 1..n |-> stats[i].it_power])
        cooling_power == SumSeq([i \in 1..n |-> stats[i].cooling_power])
        total_power == it_power + cooling_power
        max_temp == MaxSeq([i \in 1..n |-> stats[i].temp])
        avg_health == SumSeq([i \in 1..n |-> stats[i].health]) \div n
        pue == (total_power * 1000) \div it_power
        pue_reward == IF max_temp <= 5500 THEN 60 * Max2(0, 1350 - pue) ELSE 0
        health_penalty ==
            IF avg_health < 950000 THEN (50 * (HealthOne - avg_health)) \div 1000 ELSE 0
        action_jitter_penalty ==
            IF e.last_action # None
            THEN (2 * 100 * SumSeq([i \in 1..n |-> Abs(actions[i] - e.last_action[i])])) \div n
            ELSE 0
        demand_limit == (c.physics.p_max * n * 8) \div 10
        demand_penalty ==
            IF total_power > demand_limit THEN 10 * (total_power - demand_limit) ELSE 0
        neglect_penalty ==
            IF it_power * 4 > 3 * c.physics.p_max * n /\ SumSeq(actions) < 2 * n
            THEN 15000 ELSE 0
    IN  IF AbsoluteFail(c, max_temp)
        THEN [reward |-> GameOverReward, last_action |-> e.last_action]
        ELSE [reward |-> SoftThermalReward(max_temp) + pue_reward
                         - WarningPenalty(max_temp) - CriticalPenalty(max_temp)
                         - health_penalty - action_jitter_penalty
                         - demand_penalty - neglect_penalty,
              last_action |-> actions]

\* terminated, as step computes it.
Terminated(c, max_temp) == max_temp >= c.physics.max_temp

\* truncated, as step computes it: step_count is read before it is incremented.
Truncated(c, step_count) == step_count >= c.environment.max_steps

\* What a call returns: op is "none" before any call; error names the
\* exception when the call raised.
NoReturn ==
    [op |-> "none", raised |-> FALSE, error |-> "", obs |-> <<>>, reward |-> 0,
     terminated |-> FALSE, truncated |-> FALSE, info |-> [none |-> 0]]

Raised(error) == [NoReturn EXCEPT !.op = "step", !.raised = TRUE, !.error = error]

\* The locals reward, terminated and truncated of step, once it has computed
\* them.
NoLocals == [computed |-> FALSE, reward |-> 0, terminated |-> FALSE, truncated |-> FALSE]

\* Building the info dictionary of step calls self.rack.get_avg_health(),
\* which Rack does not define: AttributeError.
InfoRaises == "get_avg_health" \notin RackMethods

\* The entries of the info dictionary that can be evaluated.
StepInfo(c, rk, max_temp, stats) ==
    [total_power |-> GetTotalPower(rk),
     max_temp |-> max_temp,
     avg_temp |-> GetAvgTemperature(c, rk),
     it_power |-> SumSeq([i \in 1..Len(stats) |-> stats[i].it_power]),
     cooling_power |-> SumSeq([i \in 1..Len(stats) |-> stats[i].cooling_power]),
     stats |-> stats]

\* step from the reward on, were the step counter advanced only once the
\* info dictionary is built.
StepRecord_CountAfterInfo(c, e1, upd, rw, max_temp) ==
    LET terminated == Terminated(c, max_temp)
        truncated == Truncated(c, e1.step_count)
        e2 == [e1 EXCEPT !.rack = upd.rack,
                         !.last_action = rw.last_action,
                         !.episode_rewards = Append(@, rw.reward),
                         !.episode_temps = Append(@, max_temp),
                         !.episode_powers = Append(@, GetTotalPower(upd.rack)),
                         !.step_count = IF InfoRaises THEN @ ELSE @ + 1]
        locals == [computed |-> TRUE, reward |-> rw.reward,
                   terminated |-> terminated, truncated |-> truncated]
    IN  IF InfoRaises
        THEN [env |-> e2, ret |-> Raised("AttributeError"), locals |-> locals]
        ELSE IF e2.prev_temps = None
        THEN [env |-> e2, ret |-> Raised("UnboundLocalError"), locals |-> locals]
        ELSE LET o == GetObs(c, e2, e2.np_random)
             IN  [env |-> [e2 EXCEPT !.prev_temps = o.prev_temps, !.np_random = o.rng],
                  ret |-> [op |-> "step", raised |-> FALSE, error |-> "",
                           obs |-> o.obs, reward |-> rw.reward,
                           terminated |-> terminated, truncated |-> truncated,
                           info |-> StepInfo(c, upd.rack, max_temp, upd.stats)],
                  locals |-> locals]

\* step from the bookkeeping on (lines 107-125): rw is what _calculate_reward
\* returned and max_temp the hottest server after the update.  Raises
\* AttributeError when it builds info (the whole step has been applied by
\* then), and UnboundLocalError in _get_obs when prev_temps is None.
StepRecord(c, e1, upd, rw, max_temp) ==
    LET terminated == Terminated(c, max_temp)
        truncated == Truncated(c, e1.step_count)
        e2 == [e1 EXCEPT !.rack = upd.rack,
                         !.last_action = rw.last_action,
                         !.episode_rewards = Append(@, rw.reward),
                         !.episode_temps = Append(@, max_temp),
                         !.episode_powers = Append(@, GetTotalPower(upd.rack)),
                         !.step_count = @ + 1]
        locals == [computed |-> TRUE, reward |-> rw.reward,
                   terminated |-> terminated, truncated |-> truncated]
    IN  IF InfoRaises
        THEN [env |-> e2, ret |-> Raised("AttributeError"), locals |-> locals]
        ELSE IF e2.prev_temps = None
        THEN [env |-> e2, ret |-> Raised("UnboundLocalError"), locals |-> locals]
        ELSE LET o == GetObs(c, e2, e2.np_random)
             IN  [env |-> [e2 EXCEPT !.prev_temps = o.prev_temps, !.np_random = o.rng],
                  ret |-> [op |-> "step", raised |-> FALSE, error |-> "",
                           obs |-> o.obs, reward |-> rw.reward,
                           terminated |-> terminated, truncated |-> truncated,
                           info |-> StepInfo(c, upd.rack, max_temp, upd.stats)],
                  locals |-> locals]

\* step once rack.update has been called (lines 98-125): upd is what the
\* call did, e1 the environment with the workload advanced.  ValueError
\* propagates when Rack.update rejected the action's length.
StepAfterUpdate(c, e1, upd, action) ==
    IF upd.raised
    THEN [env |-> e1, ret |-> Raised("ValueError"), locals |-> NoLocals]
    ELSE StepRecord(c, e1, upd, CalculateReward(c, e1, upd.stats, action),
                    MaxSeq(GetTemperatures(upd.rack)))

\* DataCenterEnv.step: the environment after the call, what the call returns
\* and the locals it computed.
EnvStep(c, e, action0, entropy) ==
    LET n == e.num_servers
        action == ClipVec(action0, 0, LoadOne)
        rng0 == Generator(e, entropy)
        load_noise == NormalVec(rng0, c.environment.load_std, n)
        loads == Vec([i \in 1..n |-> Clip(e.current_loads[i] + load_noise[i], 0, LoadOne)])
        e1 == [e EXCEPT !.current_loads = loads, !.np_random = RngAdvance(rng0, n)]
    IN  StepAfterUpdate(c, e1, RackUpdate(c, e.rack, loads, action), action)

------------------------------------------------------------------------------
(* Configurations.  DefaultConfig is DEFAULT_CONFIG; the configurations    *)
(* explored shrink the rack and the episode and vary the thermal limits.   *)

DefaultConfig ==
    [physics |-> [ambient_temp |-> 2200, server_thermal_mass |-> 15000,
                  p_idle |-> 200, p_max |-> 800, max_temp |-> 9500,
                  min_temp |-> 2200, max_temp_change_per_second |-> 500],
     cooling |-> [max_fan_power |-> 1000, max_pump_power |-> 50,
                  base_pump_power |-> 10, air_cooling_capacity |-> 3000,
                  liquid_cooling_capacity |-> 12000, natural_convection |-> 50],
     environment |-> [num_racks |-> 1, servers_per_rack |-> 10,
                      min_initial_load |-> 6, max_initial_load |-> 9,
                      load_std |-> 1, max_steps |-> 1000],
     reward |-> [profile |-> "BALANCED"]]

\* The reward profile names the training entry point accepts.
RewardProfiles == {"BALANCED", "PRODUCTION_SAFE", "MAX_EFFICIENCY"}

SmallConfig ==
    [DefaultConfig EXCEPT !.environment.servers_per_rack = 2,
                          !.environment.max_steps = 2]

Configs ==
    { SmallConfig,
      \* light servers and a low limit: the limit is reached within an
      \* episode; a reward profile that is not among RewardProfiles
      [SmallConfig EXCEPT !.physics.server_thermal_mass = 20,
                          !.physics.max_temp = 5000,
                          !.reward.profile = "TURBO"],
      \* a band narrower than the range reset() draws from
      [SmallConfig EXCEPT !.physics.server_thermal_mass = 20,
                          !.physics.min_temp = 4600,
                          !.physics.max_temp = 4800,
                          !.physics.max_temp_change_per_second = 100],
      \* one server, one-step episodes, cool ambient air, initial loads
      \* drawn from a range that reaches above 1
      [SmallConfig EXCEPT !.physics.server_thermal_mass = 20,
                          !.physics.ambient_temp = 1500,
                          !.physics.min_temp = 1500,
                          !.environment.servers_per_rack = 1,
                          !.environment.max_initial_load = 15,
                          !.environment.max_steps = 1] }

------------------------------------------------------------------------------
(* Configuration loading (src/src/utils/config.py, src/src/train.py).  A   *)
(* YAML mapping is a set of <<section, field, value>> entries.             *)

\* Config(): every section built from its dataclass defaults.  The sections
\* the simulation reads are those of DefaultConfig; profile is the attribute
\* run_training sets on the reward section, absent until then.
NoProfile == ""

Config ==
    [physics |-> DefaultConfig.physics,
     cooling |-> DefaultConfig.cooling,
     reward |-> [safety_limit |-> 7500, critical_limit |-> 8500, profile |-> NoProfile],
     training |-> [timesteps |-> 500000],
     environment |-> DefaultConfig.environment]

\* The fields a section's dataclass declares.
DeclaredFields(section) == DOMAIN Config[section] \ {"profile"}

\* data.get(section, {}): the entries of one section.
SectionEntries(data, section) == {t \in data : t[1] = section}

\* XConfig(**entries) raises TypeError on a keyword that is not a field.
SectionRaises(data, section) ==
    \E t \in SectionEntries(data, section) : t[2] \notin DeclaredFields(section)

\* XConfig(**entries): the fields given, the defaults for the others.
BuildSection(data, section) ==
    [f \in DOMAIN Config[section] |->
        IF \E t \in SectionEntries(data, section) : t[2] = f
        THEN (CHOOSE t \in SectionEntries(data, section) : t[2] = f)[3]
        ELSE Config[section][f]]

ConfigSections == {"physics", "cooling", "reward", "training", "environment"}

\* A log record.
LogRecord(name, level, message) == [name |-> name, level |-> level, message |-> message]

\* What open() and yaml.safe_load raise on a file, "" if the file loads to a
\* mapping.  An empty file loads to None, which has no get.
LoadError(file) ==
    CASE file.kind = "missing" -> "FileNotFoundError"
      [] file.kind = "corrupt" -> "YAMLError"
      [] file.kind = "empty" -> "AttributeError"
      [] OTHER -> IF \E section \in ConfigSections : SectionRaises(file.data, section)
                  THEN "TypeError"
                  ELSE ""

\* Config.from_yaml(path): any exception is logged as an error and raised
\* again.
FromYaml(file) ==
    IF LoadError(file) # ""
    THEN [raised |-> TRUE, error |-> LoadError(file), config |-> Config,
          log |-> <<LogRecord("src.utils.config", "ERROR", "Error loading config")>>]
    ELSE [raised |-> FALSE, error |-> "",
          config |-> [section \in ConfigSections |-> BuildSection(file.data, section)],
          log |-> <<>>]

\* The command-line overrides of run_training (lines 61-64).
NoTimesteps == 0

ApplyOverrides(c, args) ==
    LET c1 == IF args.timesteps # NoTimesteps
              THEN [c EXCEPT !.training.timesteps = args.timesteps]
              ELSE c
    IN  IF args.profile # NoProfile
        THEN [c1 EXCEPT !.reward.profile = args.profile]
        ELSE c1

\* The configuration loading of run_training (train.py lines 57-68):
\* default is the module's DEFAULT_CONFIG object as the call finds it.
\* Returns cfg, the log records written and DEFAULT_CONFIG as the call
\* leaves it (cfg is that object when the file is not loaded).
LoadTrainingConfig(default, file, args) ==
    IF file.kind = "missing"
    THEN [raised |-> FALSE, error |-> "", config |-> ApplyOverrides(default, args),
          log |-> <<>>, DEFAULT_CONFIG |-> ApplyOverrides(default, args)]
    ELSE LET r == FromYaml(file)
         IN  IF r.raised
             THEN LET c == [default EXCEPT !.reward.profile = args.profile]
                  IN  [raised |-> FALSE, error |-> "", config |-> c,
                       log |-> r.log \o <<LogRecord("SCARI", "ERROR",
                                                    "Failed to load config")>>,
                       DEFAULT_CONFIG |-> c]
             ELSE [raised |-> FALSE, error |-> "",
                   config |-> ApplyOverrides(r.config, args),
                   log |-> r.log, DEFAULT_CONFIG |-> default]

\* The process before any configuration is loaded.
NoFile == [kind |-> "none", data |-> {}]

NoArgs == [timesteps |-> NoTimesteps, profile |-> NoProfile]

NewLoader ==
    [DEFAULT_CONFIG |-> Config, log |-> <<>>, calls |-> 0,
     ret |-> [op |-> "none", file |-> NoFile, args |-> NoArgs, raised |-> FALSE,
              error |-> "", config |-> Config, logged |-> <<>>]]

------------------------------------------------------------------------------
(* GreenDCCalculator (src/src/utils/greendc.py).  Carbon in kg of CO2.     *)

\* math.ceil(a / b) for a >= 0, b > 0.
Ceil(a, b) == (a + b - 1) \div b

\* EMBODIED_CARBON: kg of CO2 per unit.
EMBODIED_CARBON ==
    [server |-> 800, switch_48port |-> 150, pdu |-> 80, crac |-> 300, ups |-> 400,
     cabling_100m |-> 50]

\* NETWORK_SPECS: ports per switch of each topology.
NETWORK_SPECS ==
    [fat_tree |-> [ports_per_switch |-> 48], clos |-> [ports_per_switch |-> 48],
     spine_leaf |-> [ports_per_switch |-> 48], three_tier |-> [ports_per_switch |-> 48]]

NetworkTopology == DOMAIN NETWORK_SPECS

\* The size classes of calculate_embodied_carbon.
DatacenterSize_InclusiveBounds(num_servers) ==
    IF num_servers <= 100 THEN "small"
    ELSE IF num_servers <= 500 THEN "medium"
    ELSE IF num_servers <= 2000 THEN "large"
    ELSE "hyperscale"

DatacenterSize(num_servers) ==
    IF num_servers < 100 THEN "small"
    ELSE IF num_servers < 500 THEN "medium"
    ELSE IF num_servers < 2000 THEN "large"
    ELSE "hyperscale"

\* _calculate_switches, for a topology of NETWORK_SPECS.
CalculateSwitches(num_servers, topology) ==
    LET ports_per_switch == NETWORK_SPECS[topology].ports_per_switch
        num_access == Ceil(num_servers, ports_per_switch \div 2)
    IN  CASE topology = "fat_tree" ->
                 3 * (ports_per_switch \div 2) * (ports_per_switch \div 2)
          [] topology = "clos" ->
                 LET num_agg == Max2(2, num_access \div 4)
                 IN  num_access + num_agg + Max2(2, num_agg \div 4)
          [] topology = "spine_leaf" ->
                 num_access + Max2(2, num_access \div 2)
          [] OTHER ->
                 num_access + Max2(2, num_access \div 4) + Max2(1, num_access \div 12)

\* The lifespan of a HardwareComponent, in years.
LifespanYears == 5

\* calculate_embodied_carbon: KeyError from _calculate_switches when the
\* topology is not in NETWORK_SPECS.
CalculateEmbodiedCarbon(num_servers, topology) ==
    IF topology \notin NetworkTopology
    THEN [raised |-> TRUE, datacenter_size |-> "", num_servers |-> num_servers,
          topology |-> topology, total_embodied_co2_kg |-> 0,
          annual_amortized_co2_kg |-> 0, switch_count |-> 0, cracs_count |-> 0,
          ups_count |-> 0]
    ELSE LET num_switches == CalculateSwitches(num_servers, topology)
             num_pdus == Ceil(num_servers, 8)
             num_cracs == Max2(2, Ceil(num_servers, 100))
             num_ups == Max2(1, Ceil(num_servers, 500))
             cabling_100m == Ceil(num_servers, 2)
             total == num_servers * EMBODIED_CARBON.server
                        + num_switches * EMBODIED_CARBON.switch_48port
                        + num_pdus * EMBODIED_CARBON.pdu
                        + num_cracs * EMBODIED_CARBON.crac
                        + num_ups * EMBODIED_CARBON.ups
                        + cabling_100m * EMBODIED_CARBON.cabling_100m
         IN  [raised |-> FALSE, datacenter_size |-> DatacenterSize(num_servers),
              num_servers |-> num_servers, topology |-> topology,
              total_embodied_co2_kg |-> total,
              annual_amortized_co2_kg |-> total \div LifespanYears,
              switch_count |-> num_switches, cracs_count |-> num_cracs,
              ups_count |-> num_ups]

\* The last two calls of calculate_embodied_carbon.
NoCarbonCall ==
    [calls |-> 0, ret |-> CalculateEmbodiedCarbon(0, "none"),
     prev |-> CalculateEmbodiedCarbon(0, "none")]

------------------------------------------------------------------------------
(* The training endpoints of the API (src/src/api/app.py).  POST /train    *)
(* runs start_training on the event loop, without a suspension point, and  *)
(* hands run_train_task to a worker thread once the response is sent;      *)
(* a task is at one of the positions TaskPositions.                        *)

\* TrainingStatus(): the module-level status object.
TrainingStatus ==
    [is_training |-> FALSE, progress |-> 0, current_step |-> 0, total_steps |-> 0,
     last_log |-> ""]

\* TrainingParams.validate_timesteps
MinTimesteps == 1000

MaxTimesteps == 10000000

ValidTimesteps(v) == v >= MinTimesteps /\ v <= MaxTimesteps

\* queued: added by start_training, not yet begun; started: lines 204-207
\* done; reading: the subprocess runs and its output is read; finally: the
\* try block is left; done: the finally clause has run.
TaskPositions == {"queued", "started", "reading", "finally", "done"}

NewTask(params) == [pc |-> "queued", params |-> params, lines |-> 0]

\* The tasks that were accepted and have not finished, and those among them
\* that a worker thread is executing.
Unfinished(ts) == {i \in 1..Len(ts) : ts[i].pc # "done"}

Running(ts) == {i \in 1..Len(ts) : ts[i].pc \in {"started", "reading", "finally"}}

\* start_training: status and task list after the request, and the
\* response.  A body that fails validation is answered 422 before the
\* handler runs.
StartTraining(st, ts, params) ==
    IF ~ValidTimesteps(params.timesteps)
    THEN [tasks |-> ts, code |-> 422]
    ELSE IF st.is_training
    THEN [tasks |-> ts, code |-> 400]
    ELSE [tasks |-> Append(ts, NewTask(params)), code |-> 200]

\* run_train_task, lines 204-207.
TaskBegin(st, params) ==
    [st EXCEPT !.is_training = TRUE, !.progress = 0, !.current_step = 0,
               !.total_steps = params.timesteps]

\* One line of the subprocess's output (lines 235-247): timesteps is the
\* number a total_timesteps line carries, NoTimesteps for any other line.
TaskLine(st, params, timesteps) ==
    IF timesteps = NoTimesteps
    THEN [st EXCEPT !.last_log = "line"]
    ELSE [st EXCEPT !.last_log = "line", !.current_step = timesteps,
                    !.progress = Min2(100, (timesteps * 100) \div params.timesteps)]

\* The except clause (lines 248-249).
TaskExcept(st) == [st EXCEPT !.last_log = "Error"]

\* The finally clause (lines 250-251).
TaskFinally(st) == [st EXCEPT !.is_training = FALSE]

------------------------------------------------------------------------------
(* Bounds and inputs                                                       *)

\* Calls made on one environment, on the stand-alone rack, and on each
\* environment of a pair.
MaxCalls == 3

MaxRackCalls == 3

MaxPairCalls == 2

\* Calls made on the stand-alone cooling system, and evaluations of the
\* safety penalty.
MaxCoolingCalls == 4

MaxPenaltyCalls == 2

Envs == {"A", "B"}

Seeds == {NoSeed, 0, 1}

\* Load and action vectors for n servers, in tenths: all 0, all 1, one with
\* components outside [0, 1], one too short, one too long.
InputVectors(n) ==
    {Vec([i \in 1..n |-> 0]), Vec([i \in 1..n |-> 10]),
     Vec([i \in 1..n |-> IF i = 1 THEN 15 ELSE -5])}
        \cup {Vec([i \in 1..(n - 1) |-> 5]), Vec([i \in 1..(n + 1) |-> 5])}

\* The entropy a call may consume: a choice only if the environment has no
\* generator yet.
Entropy(e) == IF e.np_random = NoSeed THEN RngStates ELSE {0}

\* Time steps passed to update_physics, in seconds.
TimeSteps == {1, 1000000}

------------------------------------------------------------------------------
(* State machine                                                           *)

\* What the last call on an environment was given and returned.
Returned(ret, seed, action, locals) ==
    [ret |-> ret, seed |-> seed, action |-> action, locals |-> locals]

\* What the last call on the stand-alone rack was: the rack before it, the
\* servers it was to update, the lengths it was given.
RackReturned(op, raised, before, touched, loads, actions) ==
    [op |-> op, raised |-> raised, calls |-> rackRet.calls + 1, before |-> before,
     touched |-> touched, loads_len |-> Len(loads), actions_len |-> Len(actions)]

\* What the last call on the stand-alone cooling system was.  last_power is
\* the latest get_power_consumption call on this system that returned,
\* prev_power the latest before the last call.
NoPowerCall == [made |-> FALSE, flow_rate |-> 0, power |-> 0, operating_hours |-> 0]

NoCoolingCall ==
    [op |-> "none", calls |-> 0, raised |-> FALSE, value |-> 0, flow_rate |-> 0,
     ambient_temp |-> 0, server_temp |-> 0, dt |-> 0,
     before |-> NewCoolingSystem("AIR"), last_power |-> NoPowerCall,
     prev_power |-> NoPowerCall]

\* The last two evaluations of the safety penalty.
NoPenaltyCall ==
    [calls |-> 0, max_temp |-> 0, penalty |-> 0, prev_max_temp |-> 0, prev_penalty |-> 0]

Init ==
    /\ cfg \in Configs
    /\ globalRng \in RngStates
    /\ rack = NewRack(cfg, NumServers(cfg))
    /\ rackRet = [op |-> "none", raised |-> FALSE, calls |-> 0, before |-> rack,
                  touched |-> {}, loads_len |-> 0, actions_len |-> 0]
    /\ envs = [e \in Envs |-> NewEnv(cfg)]
    /\ envRet = [e \in Envs |-> Returned(NoReturn, NoSeed, <<>>, NoLocals)]
    /\ calls = [e \in Envs |-> 0]
    /\ seedObs = [s \in Seeds \ {NoSeed} |-> None]
    /\ hist = [e \in Envs |-> <<>>]
    /\ twin = [env |-> NewEnv(cfg), ret |-> NoReturn]
    /\ twinRng = globalRng
    /\ cooler = NewCoolingSystem("AIR")
    /\ coolRet = NoCoolingCall
    /\ penaltyRet = NoPenaltyCall
    /\ loader = NewLoader
    /\ carbonRet = NoCarbonCall
    /\ status = TrainingStatus
    /\ tasks = <<>>
    /\ responses = <<>>

\* env.reset(seed=seed) on environment A.
Reset(seed, entropy) ==
    /\ calls["A"] < MaxCalls
    /\ calls' = [calls EXCEPT !["A"] = @ + 1]
    /\ LET r == EnvReset(cfg, envs["A"], seed, entropy, globalRng)
       IN  /\ envs' = [envs EXCEPT !["A"] = r.env]
           /\ globalRng' = r.globalRng
           /\ envRet' = [envRet EXCEPT !["A"] =
                            Returned([NoReturn EXCEPT !.op = "reset", !.obs = r.obs],
                                     seed, <<>>, NoLocals)]
           /\ seedObs' = IF seed # NoSeed /\ seedObs[seed] = None
                         THEN [seedObs EXCEPT ![seed] = r.obs]
                         ELSE seedObs
    /\ UNCHANGED <<probeVars, cfg, rack, rackRet, hist, twin, twinRng>>

\* env.step(action) on environment A.
Step(action, entropy) ==
    /\ calls["A"] < MaxCalls
    /\ calls' = [calls EXCEPT !["A"] = @ + 1]
    /\ LET r == EnvStep(cfg, envs["A"], action, entropy)
       IN  /\ envs' = [envs EXCEPT !["A"] = r.env]
           /\ envRet' = [envRet EXCEPT !["A"] = Returned(r.ret, NoSeed, action, r.locals)]
    /\ UNCHANGED <<probeVars, cfg, globalRng, rack, rackRet, seedObs, hist, twin, twinRng>>

Next ==
    \/ \E seed \in Seeds, entropy \in Entropy(envs["A"]) : Reset(seed, entropy)
    \/ \E action \in InputVectors(NumServers(cfg)), entropy \in Entropy(envs["A"]) :
          Step(action, entropy)

Spec == Init /\ [][Next]_vars

------------------------------------------------------------------------------
(* The rack and its servers driven directly                                *)

\* rack.update(loads, actions)
RackUpdateCall(loads, actions) ==
    /\ rackRet.calls < MaxRackCalls
    /\ LET r == RackUpdate(cfg, rack, loads, actions)
       IN  /\ rack' = r.rack
           /\ rackRet' = RackReturned("update", r.raised, rack,
                                      1..rack.num_servers, loads, actions)
    /\ UNCHANGED <<probeVars, cfg, globalRng, envs, envRet, calls, seedObs, hist,
                   twin, twinRng>>

\* rack.servers[i].update_physics(load, action, dt)
ServerUpdateCall(i, load, action, dt) ==
    /\ rackRet.calls < MaxRackCalls
    /\ LET r == UpdatePhysics(cfg, rack.servers[i], load, action, dt, 0)
       IN  /\ rack' = [rack EXCEPT !.servers[i] = r.server]
           /\ rackRet' = RackReturned("update_physics", FALSE, rack, {i}, <<>>, <<>>)
    /\ UNCHANGED <<probeVars, cfg, globalRng, envs, envRet, calls, seedObs, hist,
                   twin, twinRng>>

\* rack.reset()
RackResetCall ==
    /\ rackRet.calls < MaxRackCalls
    /\ rack' = RackReset(cfg, rack, globalRng)
    /\ globalRng' = RngAdvance(globalRng, rack.num_servers)
    /\ rackRet' = RackReturned("reset", FALSE, rack, {}, <<>>, <<>>)
    /\ UNCHANGED <<probeVars, cfg, envs, envRet, calls, seedObs, hist, twin, twinRng>>

NextRack ==
    \/ \E loads \in InputVectors(NumServers(cfg)),
          actions \in InputVectors(NumServers(cfg)) : RackUpdateCall(loads, actions)
    \/ \E i \in 1..NumServers(cfg), load \in {15}, action \in {-5, 10},
          dt \in TimeSteps : ServerUpdateCall(i, load, action, dt)
    \/ RackResetCall

SpecRack == Init /\ [][NextRack]_vars


------------------------------------------------------------------------------
(* Two environments in one process (SpecPair).  hist records the calls     *)
(* made on each environment;                                               *)
(* twin is environment B as it would be had only B's calls happened, with  *)
(* twinRng the global generator those calls alone would have left.         *)

Call(op, seed, action) == [op |-> op, seed |-> seed, action |-> action]

PairSeeds == {NoSeed, 0}

PairActions(n) == {Vec([i \in 1..n |-> 0]), Vec([i \in 1..n |-> 10])}

\* env.reset(seed=seed) on environment e.
PairReset(e, seed, entropy) ==
    /\ calls[e] < MaxPairCalls
    /\ calls' = [calls EXCEPT ![e] = @ + 1]
    /\ LET r == EnvReset(cfg, envs[e], seed, entropy, globalRng)
           t == EnvReset(cfg, twin.env, seed, entropy, twinRng)
       IN  /\ envs' = [envs EXCEPT ![e] = r.env]
           /\ globalRng' = r.globalRng
           /\ envRet' = [envRet EXCEPT ![e] =
                            Returned([NoReturn EXCEPT !.op = "reset", !.obs = r.obs],
                                     seed, <<>>, NoLocals)]
           /\ IF e = "B"
              THEN /\ twin' = [env |-> t.env,
                               ret |-> [NoReturn EXCEPT !.op = "reset", !.obs = t.obs]]
                   /\ twinRng' = t.globalRng
              ELSE UNCHANGED <<twin, twinRng>>
    /\ hist' = [hist EXCEPT ![e] = Append(@, Call("reset", seed, <<>>))]
    /\ UNCHANGED <<probeVars, cfg, rack, rackRet, seedObs>>

\* env.step(action) on environment e.
PairStep(e, action, entropy) ==
    /\ calls[e] < MaxPairCalls
    /\ calls' = [calls EXCEPT ![e] = @ + 1]
    /\ LET r == EnvStep(cfg, envs[e], action, entropy)
           t == EnvStep(cfg, twin.env, action, entropy)
       IN  /\ envs' = [envs EXCEPT ![e] = r.env]
           /\ envRet' = [envRet EXCEPT ![e] = Returned(r.ret, NoSeed, action, r.locals)]
           /\ twin' = IF e = "B" THEN [env |-> t.env, ret |-> t.ret] ELSE twin
    /\ hist' = [hist EXCEPT ![e] = Append(@, Call("step", NoSeed, action))]
    /\ UNCHANGED <<probeVars, cfg, globalRng, rack, rackRet, seedObs, twinRng>>

NextPair ==
    \/ \E e \in Envs, seed \in PairSeeds :
          \E entropy \in Entropy(envs[e]) : PairReset(e, seed, entropy)
    \/ \E e \in Envs, action \in PairActions(NumServers(cfg)) :
          \E entropy \in Entropy(envs[e]) : PairStep(e, action, entropy)

SpecPair == Init /\ [][NextPair]_vars

------------------------------------------------------------------------------
(* A cooling system driven directly (SpecCooling)                          *)

\* Modes given to the constructor: the three known ones and one that is not.
ModeInputs == CoolingModes \cup {"EVAPORATIVE"}

\* Flow rates in hundredths, some outside [0, 1].
FlowInputs == {-20, 0, 8, 20, 40, 75, 100, 130}

\* Ambient and server temperatures in centi-degrees.
AmbientInputs == {1500, 2200}

ServerTempInputs == {2000, 6000}

\* Time steps given to update_degradation, in seconds: 10000 hours and
\* 30000 hours.
DegradationSteps == {36000000, 108000000}

CoolingReturned(op, raised, value, flow_rate, ambient_temp, server_temp, dt, last_power) ==
    [op |-> op, calls |-> coolRet.calls + 1, raised |-> raised, value |-> value,
     flow_rate |-> flow_rate, ambient_temp |-> ambient_temp,
     server_temp |-> server_temp, dt |-> dt, before |-> cooler,
     last_power |-> last_power, prev_power |-> coolRet.last_power]

\* cooler = CoolingSystem(mode, config)
CoolingNewCall(mode) ==
    /\ coolRet.calls < MaxCoolingCalls
    /\ cooler' = NewCoolingSystem(mode)
    /\ coolRet' = CoolingReturned("new", FALSE, 0, 0, 0, 0, 0, NoPowerCall)
    /\ UNCHANGED <<cfg, globalRng, rack, rackRet, envs, envRet, calls, seedObs, hist,
                   twin, twinRng, utilVars, penaltyRet>>

\* cooler.get_power_consumption(flow_rate)
CoolingPowerCall(flow_rate) ==
    /\ coolRet.calls < MaxCoolingCalls
    /\ LET r == GetPowerConsumption(cfg.cooling, cooler, flow_rate)
       IN  coolRet' = CoolingReturned("power", r.raised, r.power, flow_rate, 0, 0, 0,
                          IF r.raised THEN coolRet.last_power
                          ELSE [made |-> TRUE, flow_rate |-> flow_rate, power |-> r.power,
                                operating_hours |-> cooler.operating_hours])
    /\ UNCHANGED <<cfg, globalRng, rack, rackRet, envs, envRet, calls, seedObs, hist,
                   twin, twinRng, utilVars, cooler, penaltyRet>>

\* cooler.get_cooling_capacity(flow_rate, ambient_temp, server_temp)
CoolingCapacityCall(flow_rate, ambient_temp, server_temp) ==
    /\ coolRet.calls < MaxCoolingCalls
    /\ coolRet' = CoolingReturned("capacity", FALSE,
                      GetCoolingCapacity(cfg.cooling, cooler, flow_rate,
                                         ambient_temp, server_temp),
                      flow_rate, ambient_temp, server_temp, 0, coolRet.last_power)
    /\ UNCHANGED <<cfg, globalRng, rack, rackRet, envs, envRet, calls, seedObs, hist,
                   twin, twinRng, utilVars, cooler, penaltyRet>>

\* cooler.update_degradation(dt)
CoolingDegradationCall(dt) ==
    /\ coolRet.calls < MaxCoolingCalls
    /\ cooler' = UpdateDegradation(cooler, dt)
    /\ coolRet' = CoolingReturned("degradation", FALSE, 0, 0, 0, 0, dt, coolRet.last_power)
    /\ UNCHANGED <<cfg, globalRng, rack, rackRet, envs, envRet, calls, seedObs, hist,
                   twin, twinRng, utilVars, penaltyRet>>

NextCooling ==
    \/ \E mode \in ModeInputs : CoolingNewCall(mode)
    \/ \E flow_rate \in FlowInputs : CoolingPowerCall(flow_rate)
    \/ \E flow_rate \in FlowInputs, ambient_temp \in AmbientInputs,
          server_temp \in ServerTempInputs :
          CoolingCapacityCall(flow_rate, ambient_temp, server_temp)
    \/ \E dt \in DegradationSteps : CoolingDegradationCall(dt)

\* The cooling configuration is the same in every configuration, and the
\* cooling system draws no random number: one initial state is explored.
InitCooling == Init /\ cfg = SmallConfig /\ globalRng = 0

SpecCooling == InitCooling /\ [][NextCooling]_vars

------------------------------------------------------------------------------
(* The safety penalty of the reward evaluated directly (SpecReward)        *)

\* Maximum temperatures in centi-degrees, on both sides of 55 C and 60 C.
MaxTempInputs == {4000, 5499, 5500, 5501, 5750, 5999, 6000, 6001, 6200, 9499}

\* SafetyPenalty(max_temp) as _calculate_reward evaluates it.
PenaltyCall(max_temp) ==
    /\ penaltyRet.calls < MaxPenaltyCalls
    /\ penaltyRet' = [calls |-> penaltyRet.calls + 1,
                      max_temp |-> max_temp,
                      penalty |-> SafetyPenalty(max_temp),
                      prev_max_temp |-> penaltyRet.max_temp,
                      prev_penalty |-> penaltyRet.penalty]
    /\ UNCHANGED <<cfg, globalRng, rack, rackRet, envs, envRet, calls, seedObs, hist,
                   twin, twinRng, utilVars, cooler, coolRet>>

NextReward == \E max_temp \in MaxTempInputs : PenaltyCall(max_temp)

SpecReward == Init /\ [][NextReward]_vars

------------------------------------------------------------------------------
(* Configuration loading driven directly (SpecConfig)                      *)

\* Loads made in one process.
MaxLoadCalls == 2

\* The file at the path given: absent, not YAML, empty, or a YAML mapping;
\* the last mapping misspells a field.
ConfigFiles ==
    {[kind |-> "missing", data |-> {}],
     [kind |-> "corrupt", data |-> {}],
     [kind |-> "empty", data |-> {}],
     [kind |-> "mapping", data |-> {}],
     [kind |-> "mapping", data |-> {<<"physics", "max_temp", 5000>>,
                                    <<"environment", "servers_per_rack", 2>>}],
     [kind |-> "mapping", data |-> {<<"training", "timesteps", 20000>>}],
     [kind |-> "mapping", data |-> {<<"physics", "max_tmep", 5000>>}]}

\* --timesteps (optional) and --profile (one of the choices).
TrainingArgs == [timesteps : {NoTimesteps, 1000}, profile : {"BALANCED", "MAX_EFFICIENCY"}]

LoadCalls == {"from_yaml", "run_training"}

LoadReturned(op, file, args, r) ==
    [op |-> op, file |-> file, args |-> args, raised |-> r.raised, error |-> r.error,
     config |-> r.config, logged |-> r.log]

\* Config.from_yaml(path)
FromYamlCall(file) ==
    /\ loader.calls < MaxLoadCalls
    /\ LET r == FromYaml(file)
       IN  loader' = [loader EXCEPT !.calls = @ + 1,
                                    !.log = @ \o r.log,
                                    !.ret = LoadReturned("from_yaml", file, NoArgs, r)]
    /\ UNCHANGED <<cfg, globalRng, rack, rackRet, envs, envRet, calls, seedObs, hist,
                   twin, twinRng, cooler, coolRet, penaltyRet, carbonRet, apiVars>>

\* The configuration loading of run_training
LoadTrainingConfigCall(file, args) ==
    /\ loader.calls < MaxLoadCalls
    /\ LET r == LoadTrainingConfig(loader.DEFAULT_CONFIG, file, args)
       IN  loader' = [loader EXCEPT !.calls = @ + 1,
                                    !.log = @ \o r.log,
                                    !.DEFAULT_CONFIG = r.DEFAULT_CONFIG,
                                    !.ret = LoadReturned("run_training", file, args, r)]
    /\ UNCHANGED <<cfg, globalRng, rack, rackRet, envs, envRet, calls, seedObs, hist,
                   twin, twinRng, cooler, coolRet, penaltyRet, carbonRet, apiVars>>

NextConfig ==
    \/ \E file \in ConfigFiles : FromYamlCall(file)
    \/ \E file \in ConfigFiles, args \in TrainingArgs : LoadTrainingConfigCall(file, args)

SpecConfig == InitCooling /\ [][NextConfig]_vars

------------------------------------------------------------------------------
(* The GreenDC calculator driven directly (SpecGreenDC)                    *)

MaxCarbonCalls == 2

\* Server counts at, next to and between the class boundaries.
ServerCounts == {0, 1, 50, 99, 100, 101, 300, 499, 500, 501, 1000, 1999, 2000, 2001, 3000}

\* The topologies of NETWORK_SPECS and a name that is not among them.
TopologyInputs == NetworkTopology \cup {"ring"}

\* greendc.calculate_embodied_carbon(num_servers, topology)
EmbodiedCarbonCall(num_servers, topology) ==
    /\ carbonRet.calls < MaxCarbonCalls
    /\ carbonRet' = [calls |-> carbonRet.calls + 1,
                     ret |-> CalculateEmbodiedCarbon(num_servers, topology),
                     prev |-> carbonRet.ret]
    /\ UNCHANGED <<cfg, globalRng, rack, rackRet, envs, envRet, calls, seedObs, hist,
                   twin, twinRng, cooler, coolRet, penaltyRet, loader, apiVars>>

NextGreenDC ==
    \E num_servers \in ServerCounts, topology \in TopologyInputs :
        EmbodiedCarbonCall(num_servers, topology)

SpecGreenDC == InitCooling /\ [][NextGreenDC]_vars

------------------------------------------------------------------------------
(* The training API under concurrent requests (SpecApi)                    *)

\* POST /train requests made, and output lines read by one task.
MaxRequests == 3

MaxLines == 1

\* Request bodies: one below the smallest timesteps, one valid.
ParamsInputs == [timesteps : {999, 1000}]

\* The numbers on the output lines read.
LineInputs == {NoTimesteps, 500}

\* POST /train.  The response records what the request found: the flag and
\* the number of accepted tasks that had not finished.
PostTrain(params) ==
    /\ Len(responses) < MaxRequests
    /\ LET r == StartTraining(status, tasks, params)
       IN  /\ tasks' = r.tasks
           /\ responses' = Append(responses,
                                  [code |-> r.code, params |-> params,
                                   is_training |-> status.is_training,
                                   unfinished |-> Cardinality(Unfinished(tasks))])
    /\ UNCHANGED <<cfg, globalRng, rack, rackRet, envs, envRet, calls, seedObs, hist,
                   twin, twinRng, cooler, coolRet, penaltyRet, loader, carbonRet, status>>

\* A worker thread begins task i.
TaskBeginStep(i) ==
    /\ tasks[i].pc = "queued"
    /\ status' = TaskBegin(status, tasks[i].params)
    /\ tasks' = [tasks EXCEPT ![i].pc = "started"]
    /\ UNCHANGED <<cfg, globalRng, rack, rackRet, envs, envRet, calls, seedObs, hist,
                   twin, twinRng, cooler, coolRet, penaltyRet, loader, carbonRet, responses>>

\* subprocess.Popen returns in task i.
TaskSpawnStep(i) ==
    /\ tasks[i].pc = "started"
    /\ tasks' = [tasks EXCEPT ![i].pc = "reading"]
    /\ UNCHANGED <<cfg, globalRng, rack, rackRet, envs, envRet, calls, seedObs, hist,
                   twin, twinRng, cooler, coolRet, penaltyRet, loader, carbonRet, status,
                   responses>>

\* Task i reads a line of output.
TaskLineStep(i, timesteps) ==
    /\ tasks[i].pc = "reading"
    /\ tasks[i].lines < MaxLines
    /\ status' = TaskLine(status, tasks[i].params, timesteps)
    /\ tasks' = [tasks EXCEPT ![i].lines = @ + 1]
    /\ UNCHANGED <<cfg, globalRng, rack, rackRet, envs, envRet, calls, seedObs, hist,
                   twin, twinRng, cooler, coolRet, penaltyRet, loader, carbonRet, responses>>

\* The output of task i ends: the training has exited, with whatever status.
TaskEofStep(i) ==
    /\ tasks[i].pc = "reading"
    /\ tasks' = [tasks EXCEPT ![i].pc = "finally"]
    /\ UNCHANGED <<cfg, globalRng, rack, rackRet, envs, envRet, calls, seedObs, hist,
                   twin, twinRng, cooler, coolRet, penaltyRet, loader, carbonRet, status,
                   responses>>

\* Task i fails: Popen or reading the output raises.
TaskExceptStep(i) ==
    /\ tasks[i].pc \in {"started", "reading"}
    /\ status' = TaskExcept(status)
    /\ tasks' = [tasks EXCEPT ![i].pc = "finally"]
    /\ UNCHANGED <<cfg, globalRng, rack, rackRet, envs, envRet, calls, seedObs, hist,
                   twin, twinRng, cooler, coolRet, penaltyRet, loader, carbonRet, responses>>

\* Task i runs its finally clause and ends.
TaskFinallyStep(i) ==
    /\ tasks[i].pc = "finally"
    /\ status' = TaskFinally(status)
    /\ tasks' = [tasks EXCEPT ![i].pc = "done"]
    /\ UNCHANGED <<cfg, globalRng, rack, rackRet, envs, envRet, calls, seedObs, hist,
                   twin, twinRng, cooler, coolRet, penaltyRet, loader, carbonRet, responses>>

NextApi ==
    \/ \E params \in ParamsInputs : PostTrain(params)
    \/ \E i \in 1..Len(tasks) : TaskBeginStep(i)
    \/ \E i \in 1..Len(tasks) : TaskSpawnStep(i)
    \/ \E i \in 1..Len(tasks), timesteps \in LineInputs : TaskLineStep(i, timesteps)
    \/ \E i \in 1..Len(tasks) : TaskEofStep(i)
    \/ \E i \in 1..Len(tasks) : TaskExceptStep(i)
    \/ \E i \in 1..Len(tasks) : TaskFinallyStep(i)

SpecApi == InitCooling /\ [][NextApi]_vars

------------------------------------------------------------------------------
(* Properties of Server.update_physics and Rack.update (SpecRack)          *)

UpdateCalls == {"update", "update_physics"}

\* The servers the last call updated.
Updated == IF rackRet.op \in UpdateCalls /\ ~rackRet.raised THEN rackRet.touched ELSE {}

\* C2: after every update_physics call, whatever the load, the cooling action
\* and the earlier updates, the updated server's temperature lies within
\* [min_temp, max_temp].
C2_TemperatureWithinLimits ==
    \A i \in Updated :
        /\ rack.servers[i].temperature >= cfg.physics.min_temp
        /\ rack.servers[i].temperature <= cfg.physics.max_temp

\* An update that left a server on the lower limit although the server came
\* from a reset temperature below it and was being cooled further.
C2_Witness ==
    \E i \in Updated :
        /\ rackRet.before.servers[i].temperature < cfg.physics.min_temp
        /\ rack.servers[i].temperature = cfg.physics.min_temp

\* C3: across update_physics calls a server's health stays within [0, 1] and
\* never increases: health after a call is at most health before it.
C3_HealthNonIncreasing ==
    /\ \A i \in 1..rack.num_servers :
           rack.servers[i].health >= 0 /\ rack.servers[i].health <= HealthOne
    /\ \A i \in Updated : rack.servers[i].health <= rackRet.before.servers[i].health

\* An update that drove a server's health from a positive value to the floor.
C3_Witness ==
    \E i \in Updated :
        /\ rackRet.before.servers[i].health > 0
        /\ rack.servers[i].health = 0

\* C9: Rack.update given a loads or an actions vector whose length differs
\* from the server count raises, and leaves every server as it was.
C9_MismatchRaisesWithoutUpdate ==
    (/\ rackRet.op = "update"
     /\ (rackRet.loads_len # rack.num_servers \/ rackRet.actions_len # rack.num_servers))
    => (rackRet.raised /\ rack = rackRet.before)

\* An update given a loads vector of the right length and an actions vector
\* that is too long, which raised.
C9_Witness ==
    /\ rackRet.op = "update"
    /\ rackRet.loads_len = rack.num_servers
    /\ rackRet.actions_len > rack.num_servers
    /\ rackRet.raised


\* C14: after Rack.reset, whatever updates came before, every server has
\* health 1.0, load 0, power draw equal to idle power and a temperature equal
\* to ambient or within the pre-warmed range (40 C to 50 C), and the rack's
\* accumulated cooling power is 0.
C14_ResetRestoresServers ==
    rackRet.op = "reset" =>
        /\ rack.last_cooling_power = 0
        /\ \A i \in 1..rack.num_servers :
               LET s == rack.servers[i]
               IN  /\ s.health = HealthOne
                   /\ s.cpu_load = 0
                   /\ s.power_draw = cfg.physics.p_idle
                   /\ \/ s.temperature = cfg.physics.ambient_temp
                      \/ (4000 <= s.temperature /\ s.temperature < 5000)

\* A reset of a rack that had accumulated cooling power and held a server
\* with lowered health, a power draw other than idle and a temperature that
\* was neither ambient nor within the pre-warmed range.
C14_Witness ==
    /\ rackRet.op = "reset"
    /\ rackRet.before.last_cooling_power > 0
    /\ \E i \in 1..rack.num_servers :
           /\ rackRet.before.servers[i].health < HealthOne
           /\ rackRet.before.servers[i].power_draw # cfg.physics.p_idle
           /\ rackRet.before.servers[i].temperature # cfg.physics.ambient_temp
           /\ (rackRet.before.servers[i].temperature < 4000
                  \/ rackRet.before.servers[i].temperature >= 5000)

\* C18: each update_physics call on a server advances the operating hours
\* of its cooling system, and no call resets them.
C18_StepAdvancesOperatingHours ==
    /\ \A i \in Updated :
           rack.servers[i].cooling_system.operating_hours
               > rackRet.before.servers[i].cooling_system.operating_hours
    /\ \A i \in 1..rack.num_servers :
           rack.servers[i].cooling_system.operating_hours
               >= rackRet.before.servers[i].cooling_system.operating_hours

\* C18, the part the code keeps: no call on the rack or its servers lowers
\* the operating hours of a server's cooling system.
OperatingHoursNeverReset ==
    \A i \in 1..rack.num_servers :
        rack.servers[i].cooling_system.operating_hours
            >= rackRet.before.servers[i].cooling_system.operating_hours

\* C21: for every update_physics call, the updated server's temperature
\* changes by at most max_temp_change_per_second in absolute value.
C21_TemperatureChangeBounded ==
    \A i \in Updated :
        Abs(rack.servers[i].temperature - rackRet.before.servers[i].temperature)
            <= cfg.physics.max_temp_change_per_second

\* C21, the part the code keeps: the change is bounded by the maximum rate
\* for every server whose temperature was within [min_temp, max_temp] when
\* the call began.
ChangeBoundedWithinLimits ==
    \A i \in Updated :
        (/\ rackRet.before.servers[i].temperature >= cfg.physics.min_temp
         /\ rackRet.before.servers[i].temperature <= cfg.physics.max_temp)
            => Abs(rack.servers[i].temperature
                       - rackRet.before.servers[i].temperature)
                   <= cfg.physics.max_temp_change_per_second

------------------------------------------------------------------------------
(* Properties of DataCenterEnv (Spec)                                      *)

\* The last call on A was a step given an action of length N in an episode
\* opened by reset.
SteppedInEpisode ==
    /\ envRet["A"].ret.op = "step"
    /\ envs["A"].episode_count > 0
    /\ Len(envRet["A"].action) = envs["A"].num_servers

MaxTemperature(e) == MaxSeq(GetTemperatures(e.rack))

\* C1: after reset, step given an action vector of length N does not raise
\* and returns (observation, reward, terminated, truncated, info), info
\* holding at least total power, max temperature, average temperature and
\* average health.
C1_StepReturnsTuple ==
    SteppedInEpisode =>
        LET r == envRet["A"].ret
        IN  /\ ~r.raised
            /\ Len(r.obs) = ObservationShape(cfg)
            /\ r.terminated \in BOOLEAN
            /\ r.truncated \in BOOLEAN
            /\ {"total_power", "max_temp", "avg_temp", "avg_health"} \subseteq DOMAIN r.info

\* C4: in an episode a step returns terminated = true exactly when the
\* maximum server temperature after the update has reached the configured
\* max temperature, so on the first such step and on none before it, and that
\* step's reward is the catastrophic penalty; the step returns these values,
\* it does not raise.
C4_TerminatedAtLimit ==
    SteppedInEpisode =>
        LET r == envRet["A"].ret
            hot == MaxTemperature(envs["A"]) >= cfg.physics.max_temp
        IN  /\ ~r.raised
            /\ r.terminated <=> hot
            /\ hot => r.reward = GameOverReward

\* C5: with episode length L, the truncated flag is false on each of the
\* first L-1 steps after reset and true on the L-th step.  The flag is the
\* one step computes before it builds info.
C5_TruncatedAtEpisodeLength ==
    (SteppedInEpisode /\ envRet["A"].locals.computed
        /\ envs["A"].step_count <= cfg.environment.max_steps)
    => (envRet["A"].locals.truncated
            <=> envs["A"].step_count = cfg.environment.max_steps)

\* C7: reset(seed) returns the same observation every time it is called with
\* the same seed, whatever steps or resets came before.
C7_ResetReproducible ==
    (envRet["A"].ret.op = "reset" /\ envRet["A"].seed # NoSeed)
    => envRet["A"].ret.obs = seedObs[envRet["A"].seed]

\* C10: the observation reset and every step return has length 4N, equal to
\* the declared observation space, laid out as N normalized temperatures,
\* N loads, N health values, N temperature trends, each within [0, 1].
C10_ObservationLayout ==
    LET r == envRet["A"].ret
        e == envs["A"]
        n == e.num_servers
    IN  (r.op = "reset" \/ SteppedInEpisode) =>
            /\ Len(r.obs) = 4 * n
            /\ Len(r.obs) = ObservationShape(cfg)
            /\ \A k \in 1..Len(r.obs) : r.obs[k] >= 0 /\ r.obs[k] <= ObsOne
            /\ \A i \in 1..n :
                   /\ r.obs[i] = NormTemp(cfg, e.prev_temps[i])
                   /\ r.obs[n + i] * LoadOne = e.current_loads[i] * ObsOne
                   /\ r.obs[2 * n + i] = (e.rack.servers[i].health * ObsOne) \div HealthOne

\* C10 for reset alone: the observation reset returns has the length and
\* layout above, each component within [0, 1] when the configured range of
\* the initial loads is.
ResetObservationLayout ==
    LET r == envRet["A"].ret
        e == envs["A"]
        n == e.num_servers
    IN  r.op = "reset" =>
            /\ Len(r.obs) = ObservationShape(cfg)
            /\ (cfg.environment.min_initial_load >= 0
                    /\ cfg.environment.max_initial_load <= LoadOne)
                   => \A k \in 1..Len(r.obs) : r.obs[k] >= 0 /\ r.obs[k] <= ObsOne
            /\ \A i \in 1..n :
                   /\ r.obs[i] = NormTemp(cfg, e.prev_temps[i])
                   /\ r.obs[n + i] * LoadOne = e.current_loads[i] * ObsOne
                   /\ r.obs[2 * n + i] = (e.rack.servers[i].health * ObsOne) \div HealthOne

\* The last call on A was a step in an episode given an action of length N
\* with a component outside [0, 1].
SteppedOutOfRange ==
    /\ SteppedInEpisode
    /\ \E i \in 1..Len(envRet["A"].action) :
           envRet["A"].action[i] < 0 \/ envRet["A"].action[i] > LoadOne

\* C11: step does not fail on an action with components outside [0, 1]: the
\* call returns, with the observation, reward and flags of a step.
C11_OutOfRangeActionAccepted ==
    SteppedOutOfRange =>
        /\ ~envRet["A"].ret.raised
        /\ Len(envRet["A"].ret.obs) = ObservationShape(cfg)

\* C11, the part about clipping alone: a step given an action of length N
\* leaves the environment in the state, and computes the reward and flags,
\* that the step given the clipped action would have from the same state,
\* whether or not the call then raises.
ClippedActionEquivalent ==
    [][(/\ calls["A"]' = calls["A"] + 1
        /\ envRet["A"]'.ret.op = "step"
        /\ Len(envRet["A"]'.action) = envs["A"].num_servers)
       => \E entropy \in Entropy(envs["A"]) :
              LET r == EnvStep(cfg, envs["A"],
                               ClipVec(envRet["A"]'.action, 0, LoadOne), entropy)
              IN  /\ envs["A"]' = r.env
                  /\ envRet["A"]'.ret = r.ret
                  /\ envRet["A"]'.locals = r.locals]_vars

\* C13: with a reward profile name that is not a known one, the environment
\* does not run: every call on it fails, and no reward is computed.
C13_UnknownProfileFails ==
    cfg.reward.profile \notin RewardProfiles =>
        \/ envRet["A"].ret.op = "none"
        \/ (envRet["A"].ret.raised /\ ~envRet["A"].locals.computed)

\* C15: reset zeroes the step counter and the episode counter, whatever
\* number of steps and resets came before.
C15_ResetZeroesCounters ==
    envRet["A"].ret.op = "reset" =>
        /\ envs["A"].step_count = 0
        /\ envs["A"].episode_count = 0

\* C15 as the code has it: reset zeroes the step counter and adds one to the
\* episode counter, which counts the resets made since construction.
C15_ResetCounters ==
    [][(calls["A"]' = calls["A"] + 1 /\ envRet["A"]'.ret.op = "reset")
       => /\ envs["A"]'.step_count = 0
          /\ envs["A"]'.episode_count = envs["A"].episode_count + 1]_vars

\* A second reset, made after a step had advanced the step counter.
C15_Witness ==
    /\ envRet["A"].ret.op = "reset"
    /\ envs["A"].episode_count = 2
    /\ envs["A"].step_count = 0
    /\ calls["A"] = 3

\* C22: in every state after a reset, each server's current load held by
\* the environment lies within [0, 1].
C22_LoadsWithinUnitInterval ==
    envs["A"].episode_count > 0 =>
        \A i \in 1..envs["A"].num_servers :
            /\ envs["A"].current_loads[i] >= 0
            /\ envs["A"].current_loads[i] <= LoadOne

\* C22, the part the code keeps: the loads lie within [0, 1] after every
\* step, and after every reset whose configured range of initial loads does.
LoadsWithinUnitIntervalAfterStep ==
    (\/ envRet["A"].ret.op = "step"
     \/ /\ envs["A"].episode_count > 0
        /\ cfg.environment.min_initial_load >= 0
        /\ cfg.environment.max_initial_load <= LoadOne)
        => \A i \in 1..envs["A"].num_servers :
               /\ envs["A"].current_loads[i] >= 0
               /\ envs["A"].current_loads[i] <= LoadOne

\* C22, the part the code keeps: the loads a step leaves are the same
\* whatever action it is given.
LoadsIndependentOfAction ==
    [][(calls'["A"] = calls["A"] + 1 /\ envRet'["A"].ret.op = "step") =>
          \E entropy \in Entropy(envs["A"]) :
              \A b \in InputVectors(NumServers(cfg)) :
                  envs'["A"].current_loads
                      = EnvStep(cfg, envs["A"], b, entropy).env.current_loads]_vars

\* The step about to be taken on A is the first one of an episode that reset
\* opened, and it computes a reward.
FirstStepOfEpisode ==
    /\ calls'["A"] = calls["A"] + 1
    /\ envRet'["A"].locals.computed
    /\ envs["A"].episode_count > 0
    /\ envs["A"].step_count = 0

\* C25: the reward of the first step after reset does not depend on the
\* actions of the previous episode: it is the reward the same step computes
\* in an environment that took no step before the reset.
C25_FirstRewardIgnoresPreviousEpisode ==
    [][FirstStepOfEpisode =>
          envRet'["A"].locals.reward
              = EnvStep(cfg, [envs["A"] EXCEPT !.last_action = None],
                        envRet'["A"].action, 0).locals.reward]_vars

\* C25, the part the code keeps: the action-change penalty of a step compares
\* the action with the one of the latest earlier step that got past the
\* absolute-failure check, in whichever episode that step was taken; reset
\* leaves last_action as it is.
ResetKeepsLastAction ==
    [][(calls'["A"] = calls["A"] + 1 /\ envRet'["A"].ret.op = "reset") =>
          envs'["A"].last_action = envs["A"].last_action]_vars

\* The call about to return on A is a step that raises ValueError because
\* the action's length differs from the server count.
StepRaisesOnLength ==
    /\ calls'["A"] = calls["A"] + 1
    /\ envRet'["A"].ret.op = "step"
    /\ envRet'["A"].ret.error = "ValueError"

\* C26: a step that raises because of the action's length leaves the
\* environment unchanged: loads, step counter, episode histories, last
\* action, the rack's servers and the random stream are as before the call.
C26_LengthErrorLeavesEnvUnchanged ==
    [][StepRaisesOnLength =>
          /\ envs'["A"].current_loads = envs["A"].current_loads
          /\ envs'["A"].step_count = envs["A"].step_count
          /\ envs'["A"].episode_rewards = envs["A"].episode_rewards
          /\ envs'["A"].episode_temps = envs["A"].episode_temps
          /\ envs'["A"].episode_powers = envs["A"].episode_powers
          /\ envs'["A"].last_action = envs["A"].last_action
          /\ envs'["A"].rack = envs["A"].rack
          /\ envs'["A"].np_random = envs["A"].np_random]_vars

\* C26, the part the code keeps: such a step leaves everything but the loads
\* and the random stream unchanged.
LengthErrorKeepsRackAndHistories ==
    [][StepRaisesOnLength =>
          /\ envs'["A"].step_count = envs["A"].step_count
          /\ envs'["A"].episode_rewards = envs["A"].episode_rewards
          /\ envs'["A"].episode_temps = envs["A"].episode_temps
          /\ envs'["A"].episode_powers = envs["A"].episode_powers
          /\ envs'["A"].last_action = envs["A"].last_action
          /\ envs'["A"].prev_temps = envs["A"].prev_temps
          /\ envs'["A"].rack = envs["A"].rack]_vars

\* C26, what the code does instead: such a step has drawn the load noise, so
\* the random stream has advanced by one draw for each server.
LengthErrorAdvancesRandomStream ==
    [][StepRaisesOnLength =>
          \E entropy \in Entropy(envs["A"]) :
              envs'["A"].np_random
                  = RngAdvance(Generator(envs["A"], entropy), envs["A"].num_servers)]_vars

\* C27: in every state of the environment, after any sequence of reset and
\* step calls, raising steps included, episode_rewards, episode_temps and
\* episode_powers each hold step_count entries.
C27_HistoriesMatchStepCount ==
    /\ Len(envs["A"].episode_rewards) = envs["A"].step_count
    /\ Len(envs["A"].episode_temps) = envs["A"].step_count
    /\ Len(envs["A"].episode_powers) = envs["A"].step_count

\* Two steps of an episode have been recorded and the second raised while
\* building info.
C27_Witness ==
    /\ envRet["A"].ret.op = "step"
    /\ envRet["A"].ret.raised
    /\ envRet["A"].locals.computed
    /\ envs["A"].episode_count > 0
    /\ envs["A"].step_count = 2
    /\ Len(envs["A"].episode_rewards) = 2

\* C28: immediately after reset, for every configuration of min_temp and
\* max_temp, every server's temperature lies within [min_temp, max_temp]
\* and strictly below max_temp.
C28_ResetWithinThermalLimits ==
    envRet["A"].ret.op = "reset" =>
        \A i \in 1..envs["A"].num_servers :
            /\ envs["A"].rack.servers[i].temperature >= cfg.physics.min_temp
            /\ envs["A"].rack.servers[i].temperature < cfg.physics.max_temp

\* C28, the part the code keeps: immediately after reset every server's
\* temperature lies within the fixed range from 40 to 50 degrees, whatever
\* min_temp and max_temp are.
ResetWithinPreWarmedRange ==
    envRet["A"].ret.op = "reset" =>
        \A i \in 1..envs["A"].num_servers :
            /\ envs["A"].rack.servers[i].temperature >= 4000
            /\ envs["A"].rack.servers[i].temperature < 5000

\* The step about to be taken on A follows, with no call in between, a step
\* that computed terminated = True, and computes the flag itself.
StepAfterTerminated ==
    /\ envRet["A"].ret.op = "step"
    /\ envRet["A"].locals.computed
    /\ envRet["A"].locals.terminated
    /\ calls'["A"] = calls["A"] + 1
    /\ envRet'["A"].ret.op = "step"
    /\ envRet'["A"].locals.computed

\* C29: terminated is absorbing within an episode: a step that follows a
\* terminated step with no reset in between is terminated too, whatever its
\* action.
C29_TerminatedIsAbsorbing ==
    [][StepAfterTerminated => envRet'["A"].locals.terminated]_vars

\* C29, the part the code keeps: a step is terminated exactly when the
\* hottest server is at or above max_temp once the step's physics is
\* applied, whatever the step before it was.
TerminatedFollowsTemperature ==
    envRet["A"].locals.computed =>
        (envRet["A"].locals.terminated
            <=> MaxSeq(GetTemperatures(envs["A"].rack)) >= cfg.physics.max_temp)

------------------------------------------------------------------------------
(* Properties of CoolingSystem (SpecCooling)                               *)

\* C12: on a cooling system whose mode is not a known one, a power
\* consumption call and a cooling capacity call both fail; neither returns
\* a value.
C12_UnknownModeFails ==
    (cooler.mode \notin CoolingModes /\ coolRet.op \in {"power", "capacity"})
    => coolRet.raised

\* C12 for get_power_consumption alone: with an unknown mode it raises.
UnknownModePowerRaises ==
    (cooler.mode \notin CoolingModes /\ coolRet.op = "power") => coolRet.raised

\* C16: in AIR mode and in LIQUID mode, at fixed ambient and server
\* temperature, the cooling capacity is non-decreasing in the flow: the
\* capacity returned for a flow is at least the capacity at every flow that
\* is not larger after clamping to [0, 1].
C16_CapacityMonotoneInFlow ==
    (coolRet.op = "capacity" /\ cooler.mode \in {"AIR", "LIQUID"}) =>
        \A f1 \in -20..130 :
            Clip(f1, 0, FlowOne) <= Clip(coolRet.flow_rate, 0, FlowOne) =>
                GetCoolingCapacity(cfg.cooling, cooler, f1, coolRet.ambient_temp,
                                   coolRet.server_temp) <= coolRet.value

\* A LIQUID capacity call at full flow that returned more than the capacity
\* at flow 0.4, in air cool enough for the AIR economizer.
C16_Witness ==
    /\ coolRet.op = "capacity"
    /\ cooler.mode = "LIQUID"
    /\ coolRet.flow_rate = FlowOne
    /\ coolRet.ambient_temp < 1800
    /\ coolRet.value > GetCoolingCapacity(cfg.cooling, cooler, 40, coolRet.ambient_temp,
                                          coolRet.server_temp)

\* The last call was a power consumption call that returned, made on a
\* system that had returned the power for the same flow at an earlier time.
PowerAgainAtSameFlow ==
    /\ coolRet.op = "power"
    /\ ~coolRet.raised
    /\ coolRet.prev_power.made
    /\ coolRet.prev_power.flow_rate = coolRet.flow_rate
    /\ coolRet.prev_power.operating_hours <= cooler.operating_hours

\* C17: the efficiency factor starts at 1, never increases as operating
\* hours accumulate and is floored at a minimum; the power output is scaled
\* by (2 - efficiency factor), so for a fixed flow the power consumption
\* never decreases as operating hours grow.
C17_PowerNeverDecreasesWithHours ==
    /\ (cooler.operating_hours = 0 => cooler.efficiency_factor = EfficiencyOne)
    /\ cooler.efficiency_factor >= 800
    /\ (coolRet.op = "degradation"
            => cooler.efficiency_factor <= coolRet.before.efficiency_factor)
    /\ (PowerAgainAtSameFlow => coolRet.value >= coolRet.prev_power.power)

\* C17 for the efficiency factor alone: it starts at 1, is at least 0.8 and
\* no update_degradation call increases it.
EfficiencyFactorDegrades ==
    /\ (cooler.operating_hours = 0 => cooler.efficiency_factor = EfficiencyOne)
    /\ cooler.efficiency_factor >= 800
    /\ cooler.efficiency_factor <= EfficiencyOne
    /\ (coolRet.op = "degradation"
            => cooler.efficiency_factor <= coolRet.before.efficiency_factor)

\* The sum of the AIR and the LIQUID cooling capacity at the flows air_flow
\* and liquid_flow, for the temperatures of the last call.
SumOfVariantCapacities(air_flow, liquid_flow) ==
    GetCoolingCapacity(cfg.cooling, NewCoolingSystem("AIR"), air_flow,
                       coolRet.ambient_temp, coolRet.server_temp)
    + GetCoolingCapacity(cfg.cooling, NewCoolingSystem("LIQUID"), liquid_flow,
                         coolRet.ambient_temp, coolRet.server_temp)

\* C19: in HYBRID mode the power consumption and the cooling capacity are
\* each the sum of the AIR and the LIQUID variant's output at its share of
\* the requested flow: for the power the flows the method hands to the two
\* variants, for the capacity those flows or the 0.3 and 0.7 shares.
C19_HybridIsSumOfVariants ==
    LET f == Clip(coolRet.flow_rate, 0, FlowOne)
    IN  /\ (cooler.mode = "HYBRID" /\ coolRet.op = "power"
               /\ cooler.efficiency_factor = EfficiencyOne)
           => coolRet.value =
                  GetPowerConsumption(cfg.cooling, NewCoolingSystem("AIR"),
                                      HybridAirFlow(f)).power
                  + GetPowerConsumption(cfg.cooling, NewCoolingSystem("LIQUID"),
                                        HybridLiquidFlow(f)).power
        /\ (cooler.mode = "HYBRID" /\ coolRet.op = "capacity")
           => \/ coolRet.value = SumOfVariantCapacities(HybridAirFlow(f), HybridLiquidFlow(f))
              \/ coolRet.value = SumOfVariantCapacities((3 * f) \div 10, (7 * f) \div 10)

\* C19 for the power alone: HYBRID power is the sum of the two variants'
\* power, times the system's own efficiency factor.
HybridPowerIsSum ==
    (cooler.mode = "HYBRID" /\ coolRet.op = "power") =>
        LET f == Clip(coolRet.flow_rate, 0, FlowOne)
        IN  /\ ~coolRet.raised
            /\ coolRet.value =
                  ((GetPowerConsumption(cfg.cooling, NewCoolingSystem("AIR"),
                                        HybridAirFlow(f)).power
                    + GetPowerConsumption(cfg.cooling, NewCoolingSystem("LIQUID"),
                                          HybridLiquidFlow(f)).power)
                   * cooler.efficiency_factor) \div EfficiencyOne

------------------------------------------------------------------------------
(* Properties of the reward's safety penalty (SpecReward)                  *)

\* C20: the safety penalty is zero while the maximum temperature is below
\* the soft threshold (55 C), and a higher maximum temperature never yields
\* a smaller penalty: of two evaluations, the one at the higher temperature
\* returns at least the penalty of the other.
C20_PenaltyNeverSmallerWhenHotter ==
    /\ (penaltyRet.calls >= 1 /\ penaltyRet.max_temp < 5500) => penaltyRet.penalty = 0
    /\ (penaltyRet.calls >= 2 /\ penaltyRet.prev_max_temp <= penaltyRet.max_temp)
           => penaltyRet.prev_penalty <= penaltyRet.penalty

\* C20 on each side of 60 C: the penalty is zero up to 55 C and never
\* smaller at the higher of two temperatures that are both below 60 C or both
\* at least 60 C.
PenaltyMonotoneWithinZone ==
    /\ (penaltyRet.calls >= 1 /\ penaltyRet.max_temp <= 5500) => penaltyRet.penalty = 0
    /\ (/\ penaltyRet.calls >= 2
        /\ penaltyRet.prev_max_temp <= penaltyRet.max_temp
        /\ (penaltyRet.prev_max_temp >= 6000 \/ penaltyRet.max_temp < 6000))
           => penaltyRet.prev_penalty <= penaltyRet.penalty

------------------------------------------------------------------------------
(* Properties of two environments (SpecPair)                               *)

\* The calls made on an environment began with a seeded reset.
SeededRun(h) == h # <<>> /\ h[1].op = "reset" /\ h[1].seed # NoSeed

\* C6: two environments built with the same configuration, reset with the
\* same seed and given the same actions produce the same rewards (those
\* step computes and records in episode_rewards).
C6_SameSeedSameRewards ==
    (SeededRun(hist["A"]) /\ hist["A"] = hist["B"])
    => envs["A"].episode_rewards = envs["B"].episode_rewards

\* C8: calls on environment A leave environment B, and what B's calls return,
\* as they would be had A's calls never happened.
C8_InstancesIndependent ==
    envs["B"] = twin.env /\ envRet["B"].ret = twin.ret

------------------------------------------------------------------------------
(* Properties of configuration loading (SpecConfig)                        *)

\* The configuration agrees with the documented defaults in every section
\* the command line does not override.
DocumentedDefault(c) ==
    /\ c.physics = Config.physics
    /\ c.cooling = Config.cooling
    /\ c.environment = Config.environment
    /\ \A f \in DeclaredFields("reward") : c.reward[f] = Config.reward[f]

\* The last call loaded a configuration from a missing or corrupt file.
LoadedBadFile ==
    /\ loader.ret.op \in LoadCalls
    /\ loader.ret.file.kind \in {"missing", "corrupt"}

\* C23: loading the configuration from a missing or corrupt file does not
\* fail: the call yields the default configuration and writes a log record.
C23_BadFileYieldsDefaultWithWarning ==
    LoadedBadFile =>
        /\ ~loader.ret.raised
        /\ DocumentedDefault(loader.ret.config)
        /\ loader.ret.logged # <<>>

\* C23, the part the code keeps: the configuration loading of run_training
\* does not fail on any file and falls back to the defaults when the file is
\* missing or cannot be loaded; it logs the fallback when the file exists.
TrainingFallsBackToDefault ==
    loader.ret.op = "run_training" =>
        /\ ~loader.ret.raised
        /\ LoadError(loader.ret.file) # "" => DocumentedDefault(loader.ret.config)
        /\ (LoadError(loader.ret.file) # "" /\ loader.ret.file.kind # "missing")
               => loader.ret.logged # <<>>

\* C23, what the code does instead: from_yaml raises on every file it cannot
\* load, and run_training substitutes the defaults for a missing file
\* without a log record.
BadFileRaisesOrIsSilent ==
    LoadedBadFile =>
        IF loader.ret.op = "from_yaml"
        THEN loader.ret.raised /\ loader.ret.logged # <<>>
        ELSE loader.ret.file.kind = "missing" <=> loader.ret.logged = <<>>

------------------------------------------------------------------------------
(* Properties of GreenDCCalculator (SpecGreenDC)                           *)

------------------------------------------------------------------------------
(* Properties of the training API (SpecApi)                                *)

\* C30: at most one training task runs at a time: under every interleaving
\* of POST /train requests and task steps, a request that arrives while an
\* accepted training has not finished is answered 400, no two tasks run
\* together, and is_training is false once every task has ended, failed
\* tasks included.
C30_AtMostOneTrainingTask ==
    /\ Cardinality(Running(tasks)) <= 1
    /\ \A k \in 1..Len(responses) :
           responses[k].unfinished > 0 => responses[k].code \in {400, 422}
    /\ Unfinished(tasks) = {} => ~status.is_training

\* C30, the part the code keeps: a request that finds is_training set is
\* answered 400 (422 if its body is invalid), and is_training is false once
\* every task has ended.
RejectedWhileFlagSet ==
    /\ \A k \in 1..Len(responses) :
           responses[k].is_training => responses[k].code \in {400, 422}
    /\ Unfinished(tasks) = {} => ~status.is_training

\* C30, what the code does instead: a request is accepted whenever the flag
\* is not set, also while a task is queued or another is still running.
AcceptedWheneverFlagClear ==
    \A k \in 1..Len(responses) :
        ValidTimesteps(responses[k].params.timesteps)
            => (responses[k].code = 200 <=> ~responses[k].is_training)

====
